---- MODULE Spec2Model ----
(***************************************************************************)
(* Atterberg limits calculation engine of geostor                          *)
(* (src/calculations/atterberg_calculations.py).                           *)
(*                                                                         *)
(* Numbers.  water_content is a float fraction in the code; here it is an  *)
(* integer count of thousandths (0.192 is 192), so that x 100 is a         *)
(* division by 10.  np.log(drops) is a fixed-point table in hundredths.    *)
(* A value that Python holds as a number, as np.nan or as None is one of   *)
(* the records Num(v), NaN, None below.                                    *)
(***************************************************************************)
EXTENDS Integers, Sequences, FiniteSets, TLC

VARIABLES
    pc,             \* position of the run
    sample_group,   \* Liquid Limit rows of the call / group in progress
    estimate,       \* what calculate_liquid_limit handed to check_astm_criteria
    liquid_limit,   \* liquid_limit as held after check_astm_criteria
    astm,           \* flags, claims and diagnostic of check_astm_criteria
    pl_sample,      \* Plastic Limit rows of the call / group in progress
    plastic_limit,  \* plastic_limit of the group in progress
    sample_id,      \* sample_id of the group in progress
    fault,          \* exception caught for the group in progress, "" if none
    n_groups,       \* number of groups of ll_df.groupby
    groups_done,    \* number of groups the loop has finished
    outcomes,       \* per finished group: "emitted", "skipped" or "faulted"
    results,        \* the results list of iterate_by_sample
    pl_sample_id,   \* sample_id of the first Plastic Limit row of the group
    warned,         \* the sample_id mismatch warning was logged for the group
    ll_df,          \* what fetch_data gave for query_ll in this run
    pl_df,          \* what fetch_data gave for query_pl in this run
    events,         \* stages process_atterberg_limits has entered in this run
    failed_at,      \* stage whose exception ended this run, "" if none
    atterberglimits,\* rows of the atterberglimits table
    runs_done,      \* calls of process_atterberg_limits so far
    journal,        \* the table as the open transaction found it, or NoJournal
    before_call     \* the table at the call of insert_or_update_atterberg_limits
                    \* that SpecInsert follows statement by statement

\* what only process_atterberg_limits and the calls it makes around
\* iterate_by_sample touch
runvars == <<ll_df, pl_df, events, failed_at, atterberglimits, runs_done,
             journal, before_call>>

vars == <<pc, sample_group, estimate, liquid_limit, astm, pl_sample,
          plastic_limit, sample_id, fault, n_groups, groups_done, outcomes,
          results, pl_sample_id, warned, runvars>>

----------------------------------------------------------------------------
(* Bounds and input domains *)

MaxTrials == 4          \* most Liquid Limit trials of one sample
MaxPLTrials == 3        \* most Plastic Limit trials of one sample
MaxGroups == 2          \* most (location_name, sample_reference) groups of a run
MaxRuns == 2            \* most calls of process_atterberg_limits on one database

\* drop counts tried against the validator: below, inside and above each band
AstmDrops == {14, 18, 21, 22, 25, 26, 27, 29, 30, 36}

\* water contents (thousandths) of Plastic Limit trials
PLWaterContents == {180, 192, 250, 260, 1700}

SeqsUpTo(S, lo, hi) == UNION {[1..k -> S] : k \in lo..hi}

----------------------------------------------------------------------------
(* Python values *)

Num(v) == [kind |-> "num", v |-> v]
NaN == [kind |-> "nan", v |-> 0]
None == [kind |-> "none", v |-> 0]

\* pd.isna / np.isnan: true of np.nan and of None
isna(x) == x.kind # "num"

\* int(x) alone: the fraction is cut off
RoundDown(num, den) == num \div den

\* round(x, 0) of a float num/den (den > 0): ties go to the even integer
RoundHalfEven(num, den) ==
    LET q == num \div den
        r == num % den
    IN  IF 2 * r < den THEN q
        ELSE IF 2 * r > den THEN q + 1
        ELSE IF q % 2 = 0 THEN q ELSE q + 1

Abs(x) == IF x < 0 THEN -x ELSE x

----------------------------------------------------------------------------
(* check_astm_criteria *)

AstmStart ==
    [range_25_35 |-> FALSE, range_20_30 |-> FALSE, range_15_25 |-> FALSE,
     raised |-> FALSE, claims |-> <<>>]

\* a trial inside [25,35] claims nothing once that band is taken
AstmRowNested(st, row) ==
    LET drops == row.drops IN
    IF 25 <= drops /\ drops <= 35 THEN
        IF ~st.range_25_35
        THEN [st EXCEPT !.range_25_35 = TRUE, !.claims = Append(@, "25-35")]
        ELSE [st EXCEPT !.claims = Append(@, "none")]
    ELSE IF 20 <= drops /\ drops <= 30 /\ ~st.range_20_30 THEN
        [st EXCEPT !.range_20_30 = TRUE, !.claims = Append(@, "20-30")]
    ELSE IF 15 <= drops /\ drops <= 25 /\ ~st.range_15_25 THEN
        [st EXCEPT !.range_15_25 = TRUE, !.claims = Append(@, "15-25")]
    ELSE IF drops < 15 \/ drops > 35 THEN
        [st EXCEPT !.raised = TRUE]
    ELSE [st EXCEPT !.claims = Append(@, "none")]

\* a trial claims every free band that holds it
AstmRowEveryBand(st, row) ==
    LET drops == row.drops
        in1 == 25 <= drops /\ drops <= 35 /\ ~st.range_25_35
        in2 == 20 <= drops /\ drops <= 30 /\ ~st.range_20_30
        in3 == 15 <= drops /\ drops <= 25 /\ ~st.range_15_25
    IN  IF drops < 15 \/ drops > 35 THEN [st EXCEPT !.raised = TRUE]
        ELSE [st EXCEPT !.range_25_35 = @ \/ in1,
                        !.range_20_30 = @ \/ in2,
                        !.range_15_25 = @ \/ in3,
                        !.claims = Append(@, IF in1 THEN "25-35"
                                             ELSE IF in2 THEN "20-30"
                                             ELSE IF in3 THEN "15-25"
                                             ELSE "none")]

\* the bands tested from the lowest to the highest
AstmRowLowFirst(st, row) ==
    LET drops == row.drops IN
    IF 15 <= drops /\ drops <= 25 /\ ~st.range_15_25 THEN
        [st EXCEPT !.range_15_25 = TRUE, !.claims = Append(@, "15-25")]
    ELSE IF 20 <= drops /\ drops <= 30 /\ ~st.range_20_30 THEN
        [st EXCEPT !.range_20_30 = TRUE, !.claims = Append(@, "20-30")]
    ELSE IF 25 <= drops /\ drops <= 35 /\ ~st.range_25_35 THEN
        [st EXCEPT !.range_25_35 = TRUE, !.claims = Append(@, "25-35")]
    ELSE IF drops < 15 \/ drops > 35 THEN
        [st EXCEPT !.raised = TRUE]
    ELSE [st EXCEPT !.claims = Append(@, "none")]

\* one pass of the for loop (lines 159-171).  The last branch formats its
\* message with {trial}, a name bound nowhere (the row's number is
\* trial_number): evaluating it raises NameError.
AstmRow(st, row) ==
    LET drops == row.drops IN
    IF 25 <= drops /\ drops <= 35 /\ ~st.range_25_35 THEN
        [st EXCEPT !.range_25_35 = TRUE, !.claims = Append(@, "25-35")]
    ELSE IF 20 <= drops /\ drops <= 30 /\ ~st.range_20_30 THEN
        [st EXCEPT !.range_20_30 = TRUE, !.claims = Append(@, "20-30")]
    ELSE IF 15 <= drops /\ drops <= 25 /\ ~st.range_15_25 THEN
        [st EXCEPT !.range_15_25 = TRUE, !.claims = Append(@, "15-25")]
    ELSE IF drops < 15 \/ drops > 35 THEN
        [st EXCEPT !.raised = TRUE]
    ELSE [st EXCEPT !.claims = Append(@, "none")]

RECURSIVE AstmLoop(_, _, _)
AstmLoop(sample_df, i, st) ==
    IF i > Len(sample_df) \/ st.raised THEN st
    ELSE AstmLoop(sample_df, i + 1, AstmRow(st, sample_df[i]))

AstmMessage(st) ==
    IF ~st.range_25_35 THEN "Need a trial between 25 and 35 drops"
    ELSE IF ~st.range_20_30 THEN "Need a trial between 20 and 30 drops"
    ELSE IF ~st.range_15_25 THEN "Need a trial between 15 and 25 drops"
    ELSE ""

\* lines 152-190.  raised = TRUE: the call ended in NameError, nothing returned.
check_astm_criteria(sample_df, ll) ==
    LET st == AstmLoop(sample_df, 1, AstmStart)
        criteria_met == st.range_25_35 /\ st.range_20_30 /\ st.range_15_25
    IN  st @@
        [criteria_met |-> criteria_met,
         message |-> IF st.raised \/ criteria_met THEN "" ELSE AstmMessage(st),
         liquid_limit |-> IF st.raised THEN ll
                          ELSE IF criteria_met THEN ll ELSE NaN]

\* no call made yet
AstmIdle == AstmStart @@ [criteria_met |-> FALSE, message |-> "", liquid_limit |-> NaN]

----------------------------------------------------------------------------
(* calculation_plastic_limit *)

RECURSIVE InsertSorted(_, _)
InsertSorted(s, row) ==
    IF s = <<>> THEN <<row>>
    ELSE IF row.water_content < Head(s).water_content THEN <<row>> \o s
    ELSE <<Head(s)>> \o InsertSorted(Tail(s), row)

\* sample_df.sort_values("water_content")
RECURSIVE sort_values(_)
sort_values(s) ==
    IF s = <<>> THEN <<>>
    ELSE InsertSorted(sort_values(SubSeq(s, 1, Len(s) - 1)), s[Len(s)])

\* line 270: abs(wc[i] - wc[i+1]) <= 1.4 on the stored fractions, that is
\* 1400 thousandths
WithinTolerance(a, b) == Abs(a - b) <= 1400

RECURSIVE PlasticScan(_, _)
PlasticScan(sorted, i) ==
    IF i > Len(sorted) - 1 THEN NaN
    ELSE IF WithinTolerance(sorted[i].water_content, sorted[i + 1].water_content)
         THEN Num(RoundHalfEven(sorted[i].water_content
                                + sorted[i + 1].water_content, 20))
         ELSE PlasticScan(sorted, i + 1)

\* a lone trial gives its own water content
calculation_plastic_limit_lone(sample_df) ==
    IF Len(sample_df) = 1
    THEN Num(RoundHalfEven(sample_df[1].water_content, 10))
    ELSE PlasticScan(sort_values(sample_df), 1)

\* lines 261-290
calculation_plastic_limit(sample_df) == PlasticScan(sort_values(sample_df), 1)

----------------------------------------------------------------------------
(* calculate_liquid_limit *)

\* np.log(d) in hundredths, d = 1..50
LnTable ==
    <<0, 69, 110, 139, 161, 179, 195, 208, 220, 230,
      240, 248, 256, 264, 271, 277, 283, 289, 294, 300,
      304, 309, 314, 318, 322, 326, 330, 333, 337, 340,
      343, 347, 350, 353, 356, 358, 361, 364, 366, 369,
      371, 374, 376, 378, 381, 383, 385, 387, 389, 391>>

log(d) == LnTable[d]

\* the sums of the normal equations over rows i..n
RECURSIVE Sums(_, _)
Sums(sample_df, i) ==
    IF i > Len(sample_df) THEN [x |-> 0, y |-> 0, xx |-> 0, xy |-> 0]
    ELSE LET r == Sums(sample_df, i + 1)
             x == log(sample_df[i].drops)
             y == sample_df[i].water_content
         IN  [x |-> r.x + x, y |-> r.y + y, xx |-> r.xx + x * x, xy |-> r.xy + x * y]

\* lines 124-145: np.polyfit(np.log(x), y, 1) evaluated at log(25), times 100,
\* rounded.  With every drops equal (one trial included) the least-squares
\* system has rank 1 and polyfit returns the minimum-norm solution of the
\* column-scaled system, slope = mean(y) / (2 log x), intercept = mean(y) / 2.
\* The except branch (np.nan) needs a non-finite water_content or drops <= 0,
\* which the trial domains of this module leave out.
calculate_liquid_limit(sample_df) ==
    LET n == Len(sample_df)
        sums == Sums(sample_df, 1)
        Sx == sums.x
        Sy == sums.y
        Sxx == sums.xx
        Sxy == sums.xy
        D == n * Sxx - Sx * Sx
        x1 == log(sample_df[1].drops)
    IN  IF D = 0
        THEN Num(RoundHalfEven(Sy * (x1 + log(25)), 20 * n * x1))
        ELSE Num(RoundHalfEven(Sy * D + (n * Sxy - Sx * Sy) * (n * log(25) - Sx),
                               10 * n * D))

\* lines 244-257.  plot_ok: whether create_liquid_limit_plot (figure and
\* savefig) gets through.  raised names the exception that ends the call.
calculation_liquid_limit(sample_df, plot_ok) ==
    LET est == calculate_liquid_limit(sample_df)
        chk == check_astm_criteria(sample_df, est)
    IN  [estimate |-> est,
         astm |-> chk,
         liquid_limit |-> chk.liquid_limit,
         raised |-> IF chk.raised THEN "NameError"
                    ELSE IF ~isna(chk.liquid_limit) /\ ~plot_ok THEN "PlotError"
                    ELSE ""]

----------------------------------------------------------------------------
(* check_astm_criteria and calculation_plastic_limit on their own *)

LLInputs == {NaN, Num(40), Num(55)}

AstmRows(d) == [i \in 1..Len(d) |-> [trial |-> i, drops |-> d[i], water_content |-> 400]]

\* no transaction open
NoJournal == "none"

\* no call of process_atterberg_limits around: the frames are simply given
NoRun ==
    /\ ll_df = "rows"
    /\ pl_df = "rows"
    /\ events = <<>>
    /\ failed_at = ""
    /\ atterberglimits = <<>>
    /\ runs_done = 0
    /\ journal = NoJournal
    /\ before_call = <<>>

Idle ==
    /\ sample_id = None
    /\ fault = ""
    /\ n_groups = 0
    /\ groups_done = 0
    /\ outcomes = <<>>
    /\ results = <<>>
    /\ pl_sample_id = None
    /\ warned = FALSE
    /\ NoRun

InitAstm ==
    /\ pc = "astm_call"
    /\ \E d \in SeqsUpTo(AstmDrops, 1, MaxTrials) : sample_group = AstmRows(d)
    /\ estimate \in LLInputs
    /\ liquid_limit = estimate
    /\ astm = AstmIdle
    /\ pl_sample = <<>>
    /\ plastic_limit = None
    /\ Idle

CallCheckAstm ==
    /\ pc = "astm_call"
    /\ LET r == check_astm_criteria(sample_group, estimate) IN
        /\ astm' = r
        /\ liquid_limit' = r.liquid_limit
        /\ pc' = IF r.raised THEN "astm_raised" ELSE "astm_returned"
    /\ UNCHANGED <<sample_group, estimate, pl_sample, plastic_limit, sample_id,
                   fault, n_groups, groups_done, outcomes, results>>
    /\ UNCHANGED <<pl_sample_id, warned, runvars>>

NextAstm == CallCheckAstm

SpecAstm == InitAstm /\ [][NextAstm]_vars

PLRows(w) == [i \in 1..Len(w) |-> [trial |-> i, water_content |-> w[i]]]

InitPL ==
    /\ pc = "pl_call"
    /\ \E w \in SeqsUpTo(PLWaterContents, 1, MaxPLTrials) : pl_sample = PLRows(w)
    /\ plastic_limit = None
    /\ sample_group = <<>>
    /\ estimate = NaN
    /\ liquid_limit = NaN
    /\ astm = AstmIdle
    /\ Idle

CallPlasticLimit ==
    /\ pc = "pl_call"
    /\ plastic_limit' = calculation_plastic_limit(pl_sample)
    /\ pc' = "pl_returned"
    /\ UNCHANGED <<sample_group, estimate, liquid_limit, astm, pl_sample,
                   sample_id, fault, n_groups, groups_done, outcomes, results>>
    /\ UNCHANGED <<pl_sample_id, warned, runvars>>

NextPL == CallPlasticLimit

SpecPL == InitPL /\ [][NextPL]_vars

----------------------------------------------------------------------------
(* iterate_by_sample *)

\* Liquid Limit trials (drops, water_content in thousandths) a group draws from
LLTrials ==
    {[drops |-> 27, water_content |-> 480], [drops |-> 22, water_content |-> 520],
     [drops |-> 18, water_content |-> 530], [drops |-> 36, water_content |-> 450]}

\* water contents (thousandths) of a group's Plastic Limit trials
GroupPLWaterContents == {200, 210}

LLRows(t) ==
    [i \in 1..Len(t) |->
        [trial |-> i, drops |-> t[i].drops, water_content |-> t[i].water_content]]

\* liquid_limit - plastic_limit on floats: np.nan if either is np.nan
Minus(a, b) == IF isna(a) \/ isna(b) THEN NaN ELSE Num(a.v - b.v)

\* liquid_limit >= 50: False when liquid_limit is np.nan
AtLeast(a, k) == ~isna(a) /\ a.v >= k

\* the class boundary taken as liquid_limit > 50
combine_strict(ll, pl) ==
    IF ll # None /\ pl # None
    THEN [plasticity_index |-> Minus(ll, pl),
          soil_description |-> IF AtLeast(ll, 51) THEN "CH" ELSE "CL"]
    ELSE [plasticity_index |-> None, soil_description |-> "NP"]

\* lines 340-346: the test is "is not None", which np.nan passes
combine(ll, pl) ==
    IF ll # None /\ pl # None
    THEN [plasticity_index |-> Minus(ll, pl),
          soil_description |-> IF AtLeast(ll, 50) THEN "CH" ELSE "CL"]
    ELSE [plasticity_index |-> None, soil_description |-> "NP"]

\* pd.isna(x) turned into None, as in lines 354-356
OrNone(x) == IF isna(x) THEN None ELSE x

\* plasticity_index stored as computed
result_record_raw(key, sid, ll, pl, c) ==
    [sample_key |-> key,
     sample_id |-> sid.v,
     liquid_limit |-> OrNone(ll),
     plastic_limit |-> OrNone(pl),
     plasticity_index |-> c.plasticity_index,
     soil_description |-> c.soil_description]

\* lines 349-358; sample_key stands for (location_name, sample_reference)
result_record(key, sid, ll, pl, c) ==
    [sample_key |-> key,
     sample_id |-> sid.v,
     liquid_limit |-> OrNone(ll),
     plastic_limit |-> OrNone(pl),
     plasticity_index |-> OrNone(c.plasticity_index),
     soil_description |-> c.soil_description]

\* the exception ends the run
PcAfterExceptAbort == "raised"

\* lines 361-365: the handler logs and continues with the next group
PcAfterExcept == "loop"

Init ==
    /\ pc = "loop"
    /\ n_groups \in 0..MaxGroups
    /\ groups_done = 0
    /\ outcomes = <<>>
    /\ results = <<>>
    /\ sample_group = <<>>
    /\ estimate = NaN
    /\ liquid_limit = NaN
    /\ astm = AstmIdle
    /\ pl_sample = <<>>
    /\ plastic_limit = None
    /\ sample_id = None
    /\ fault = ""
    /\ pl_sample_id = None
    /\ warned = FALSE
    /\ NoRun

\* what one pass of the loop starts from: the locals of the pass before are
\* rebound or no longer read
FreshPass ==
    /\ sample_group' = <<>>
    /\ estimate' = NaN
    /\ liquid_limit' = NaN
    /\ astm' = AstmIdle
    /\ pl_sample' = <<>>
    /\ plastic_limit' = None
    /\ fault' = ""
    /\ pl_sample_id' = None
    /\ warned' = FALSE

\* lines 310-313: the next key of the groupby, its sample_id present
NextGroup ==
    /\ pc = "loop"
    /\ groups_done < n_groups
    /\ sample_id' = Num(groups_done + 1)
    /\ FreshPass
    /\ pc' = "liquid_limit"
    /\ UNCHANGED <<n_groups, groups_done, outcomes, results>>
    /\ UNCHANGED runvars

\* lines 310-316: the next key of the groupby, its sample_id missing
SkipGroup ==
    /\ pc = "loop"
    /\ groups_done < n_groups
    /\ sample_id' = NaN
    /\ FreshPass
    /\ outcomes' = Append(outcomes, "skipped")
    /\ groups_done' = groups_done + 1
    /\ pc' = "loop"
    /\ UNCHANGED <<n_groups, results>>
    /\ UNCHANGED runvars

\* line 319, and lines 361-365 when the call raises.  sample_group, estimate
\* and astm describe the call that has just ended.  T: the trial sequences
\* the group's rows are drawn from.
LiquidLimitFrom(T) ==
    /\ pc = "liquid_limit"
    /\ \E t \in T, plot_ok \in BOOLEAN :
        LET rows == LLRows(t)
            r == calculation_liquid_limit(rows, plot_ok)
        IN  /\ sample_group' = rows
            /\ estimate' = r.estimate
            /\ astm' = r.astm
            /\ fault' = r.raised
            /\ IF r.raised # ""
               THEN /\ outcomes' = Append(outcomes, "faulted")
                    /\ groups_done' = groups_done + 1
                    /\ pc' = PcAfterExcept
                    /\ UNCHANGED liquid_limit
               ELSE /\ liquid_limit' = r.liquid_limit
                    /\ pc' = "plastic_limit"
                    /\ UNCHANGED <<outcomes, groups_done>>
    /\ UNCHANGED <<pl_sample, plastic_limit, sample_id, n_groups, results>>
    /\ UNCHANGED <<pl_sample_id, warned, runvars>>

LiquidLimit == LiquidLimitFrom(SeqsUpTo(LLTrials, 1, MaxTrials))

\* a sample other than those the groups of this run take their sample_id from
OtherSample == Num(n_groups + 1)

\* lines 322-338.  W: the water-content sequences the group's Plastic Limit
\* rows are drawn from; the rows are those of the group's own sample or of
\* another sample under the same (location_name, sample_reference).  The rows
\* of the Liquid Limit call are not read again.
PlasticLimitFrom(W) ==
    /\ pc = "plastic_limit"
    /\ \E w \in W, pl_sid \in {sample_id, OtherSample} :
        /\ pl_sample' = PLRows(w)
        /\ plastic_limit' = IF w = <<>> THEN None
                            ELSE calculation_plastic_limit(PLRows(w))
        /\ pl_sample_id' = IF w = <<>> THEN None ELSE pl_sid
        /\ warned' = (w # <<>> /\ pl_sid # sample_id)
    /\ sample_group' = <<>>
    /\ estimate' = NaN
    /\ astm' = AstmIdle
    /\ pc' = "emit"
    /\ UNCHANGED <<liquid_limit, sample_id, fault, n_groups, groups_done,
                   outcomes, results>>
    /\ UNCHANGED runvars

PlasticLimit == PlasticLimitFrom(SeqsUpTo(GroupPLWaterContents, 0, MaxPLTrials))

\* the record takes the sample_id of the Plastic Limit rows when there are any
EmitPLSampleId ==
    /\ pc = "emit"
    /\ results' = Append(results,
                         result_record(groups_done + 1,
                                       IF pl_sample = <<>> THEN sample_id
                                       ELSE pl_sample_id,
                                       liquid_limit, plastic_limit,
                                       combine(liquid_limit, plastic_limit)))
    /\ outcomes' = Append(outcomes, "emitted")
    /\ groups_done' = groups_done + 1
    /\ pc' = "loop"
    /\ UNCHANGED <<sample_group, estimate, liquid_limit, astm, pl_sample,
                   plastic_limit, sample_id, fault, n_groups>>
    /\ UNCHANGED <<pl_sample_id, warned, runvars>>

\* Plastic Limit rows of another sample are taken for a group of their own,
\* which gets a record as well
EmitPLKeyToo ==
    /\ pc = "emit"
    /\ LET own == result_record(groups_done + 1, sample_id, liquid_limit,
                                plastic_limit,
                                combine(liquid_limit, plastic_limit))
           other == result_record(pl_sample_id.v, pl_sample_id, None,
                                  plastic_limit, combine(None, plastic_limit))
       IN  results' = IF pl_sample # <<>> /\ pl_sample_id # sample_id
                      THEN results \o <<own, other>>
                      ELSE Append(results, own)
    /\ outcomes' = Append(outcomes, "emitted")
    /\ groups_done' = groups_done + 1
    /\ pc' = "loop"
    /\ UNCHANGED <<sample_group, estimate, liquid_limit, astm, pl_sample,
                   plastic_limit, sample_id, fault, n_groups>>
    /\ UNCHANGED <<pl_sample_id, warned, runvars>>

\* lines 340-359
Emit ==
    /\ pc = "emit"
    /\ results' = Append(results,
                         result_record(groups_done + 1, sample_id, liquid_limit,
                                       plastic_limit,
                                       combine(liquid_limit, plastic_limit)))
    /\ outcomes' = Append(outcomes, "emitted")
    /\ groups_done' = groups_done + 1
    /\ pc' = "loop"
    /\ UNCHANGED <<sample_group, estimate, liquid_limit, astm, pl_sample,
                   plastic_limit, sample_id, fault, n_groups>>
    /\ UNCHANGED <<pl_sample_id, warned, runvars>>

\* lines 367-368
RaiseNoData ==
    /\ pc = "loop"
    /\ groups_done = n_groups
    /\ results = <<>>
    /\ pc' = "raised"
    /\ UNCHANGED <<sample_group, estimate, liquid_limit, astm, pl_sample,
                   plastic_limit, sample_id, fault, n_groups, groups_done,
                   outcomes, results>>
    /\ UNCHANGED <<pl_sample_id, warned, runvars>>

\* the collection is returned whatever it holds
ReturnResultsAlways ==
    /\ pc = "loop"
    /\ groups_done = n_groups
    /\ pc' = "returned"
    /\ UNCHANGED <<sample_group, estimate, liquid_limit, astm, pl_sample,
                   plastic_limit, sample_id, fault, n_groups, groups_done,
                   outcomes, results>>
    /\ UNCHANGED <<pl_sample_id, warned, runvars>>

\* line 370.  pd.DataFrame(results) has one row per record, its cell missing
\* (pd.isna) exactly where the record holds None.
ReturnResults ==
    /\ pc = "loop"
    /\ groups_done = n_groups
    /\ results # <<>>
    /\ pc' = "returned"
    /\ UNCHANGED <<sample_group, estimate, liquid_limit, astm, pl_sample,
                   plastic_limit, sample_id, fault, n_groups, groups_done,
                   outcomes, results>>
    /\ UNCHANGED <<pl_sample_id, warned, runvars>>

Next ==
    \/ NextGroup
    \/ SkipGroup
    \/ LiquidLimit
    \/ PlasticLimit
    \/ Emit
    \/ RaiseNoData
    \/ ReturnResults

Spec == Init /\ [][Next]_vars

----------------------------------------------------------------------------
(* calculate_liquid_limit on its own *)

\* trials the estimator is tried on: drops around 25, water contents
\* (thousandths) 24 apart
FitTrials ==
    {[drops |-> d, water_content |-> w] : d \in {22, 25, 28}, w \in {472, 496, 520}}

InitFit ==
    /\ pc = "fit_call"
    /\ \E t \in SeqsUpTo(FitTrials, 1, MaxTrials) : sample_group = LLRows(t)
    /\ estimate = NaN
    /\ liquid_limit = NaN
    /\ astm = AstmIdle
    /\ pl_sample = <<>>
    /\ plastic_limit = None
    /\ Idle

\* lines 124-145: the first element of the tuple returned
CallCalculateLiquidLimit ==
    /\ pc = "fit_call"
    /\ estimate' = calculate_liquid_limit(sample_group)
    /\ pc' = "fit_returned"
    /\ UNCHANGED <<sample_group, liquid_limit, astm, pl_sample, plastic_limit,
                   sample_id, fault, n_groups, groups_done, outcomes, results,
                   pl_sample_id, warned, runvars>>

NextFit == CallCalculateLiquidLimit

SpecFit == InitFit /\ [][NextFit]_vars

----------------------------------------------------------------------------
(* process_atterberg_limits, call after call on one database *)

\* Liquid Limit rows of a group in these runs: three trials that claim the
\* three bands, or two of them beside a trial of 36 drops
RunLLTrials ==
    {<<[drops |-> 27, water_content |-> 480], [drops |-> 22, water_content |-> 520],
       [drops |-> 18, water_content |-> 530]>>,
     <<[drops |-> 27, water_content |-> 480], [drops |-> 22, water_content |-> 520],
       [drops |-> 36, water_content |-> 450]>>}

\* water contents of a group's Plastic Limit rows in these runs
RunPLWaterContents == {<<>>, <<200, 200>>}

\* UPDATE ... SET is_active = 0 with no WHERE clause
DeactivateAll(table, sample_ids) ==
    [i \in 1..Len(table) |-> [table[i] EXCEPT !.is_active = 0]]

\* lines 496-508: UPDATE ... SET is_active = 0 WHERE sample_id IN (...)
Deactivate(table, sample_ids) ==
    [i \in 1..Len(table) |->
        IF table[i].sample_id \in sample_ids
        THEN [table[i] EXCEPT !.is_active = 0]
        ELSE table[i]]

\* lines 511-530: one INSERT per row of df, is_active 1, date_calculated the
\* time of the call; atterberg_id is the AUTOINCREMENT key.  sample_id of a
\* row of df is an int (line 352), so no row is passed over at line 519.
InsertRows(table, df, now) ==
    table \o [i \in 1..Len(df) |->
                [atterberg_id |-> Len(table) + i,
                 sample_id |-> df[i].sample_id,
                 liquid_limit |-> df[i].liquid_limit,
                 plastic_limit |-> df[i].plastic_limit,
                 plasticity_index |-> df[i].plasticity_index,
                 soil_description |-> df[i].soil_description,
                 date_calculated |-> now,
                 is_active |-> 1]]

\* the rows are inserted and the stored ones left as they are
insert_only(table, df, now) == InsertRows(table, df, now)

\* the stored rows of the samples written are deleted, not kept inactive
delete_and_insert(table, df, now) ==
    InsertRows(SelectSeq(table,
                         LAMBDA row : row.sample_id \notin {df[i].sample_id : i \in 1..Len(df)}),
               df, now)

\* lines 484-532, the table after conn.commit()
insert_or_update_atterberg_limits(table, df, now) ==
    InsertRows(Deactivate(table, {df[i].sample_id : i \in 1..Len(df)}), df, now)

\* the run goes on to fetch_data
PcAfterSchemaErrorIgnored == "fetch_ll"

\* lines 597 and 616-618: the ValueError of verify_database_schema ends the run
PcAfterSchemaError == "failed"

\* the locals of iterate_by_sample before its first pass
NoGroups ==
    /\ groups_done' = 0
    /\ outcomes' = <<>>
    /\ results' = <<>>
    /\ sample_id' = None
    /\ FreshPass

InitRun ==
    /\ pc = "idle"
    /\ n_groups = 0
    /\ groups_done = 0
    /\ outcomes = <<>>
    /\ results = <<>>
    /\ sample_group = <<>>
    /\ estimate = NaN
    /\ liquid_limit = NaN
    /\ astm = AstmIdle
    /\ pl_sample = <<>>
    /\ plastic_limit = None
    /\ sample_id = None
    /\ fault = ""
    /\ pl_sample_id = None
    /\ warned = FALSE
    /\ ll_df = "unfetched"
    /\ pl_df = "unfetched"
    /\ events = <<>>
    /\ failed_at = ""
    /\ atterberglimits = <<>>
    /\ runs_done = 0
    /\ journal = NoJournal
    /\ before_call = <<>>

\* line 583: process_atterberg_limits is called, the database as the calls
\* before have left it
StartRun ==
    /\ pc \in {"idle", "done", "failed"}
    /\ runs_done < MaxRuns
    /\ runs_done' = runs_done + 1
    /\ events' = <<>>
    /\ failed_at' = ""
    /\ ll_df' = "unfetched"
    /\ pl_df' = "unfetched"
    /\ n_groups' = 0
    /\ NoGroups
    /\ pc' = "verify"
    /\ UNCHANGED atterberglimits
    /\ UNCHANGED <<journal, before_call>>

\* lines 597-600 and 538-580: a required table or column is there or not
VerifyDatabaseSchema ==
    /\ pc = "verify"
    /\ events' = Append(events, "verify_database_schema")
    /\ \E schema_ok \in BOOLEAN :
        IF schema_ok
        THEN pc' = "fetch_ll" /\ UNCHANGED failed_at
        ELSE pc' = PcAfterSchemaError /\ failed_at' = "verify_database_schema"
    /\ UNCHANGED <<sample_group, estimate, liquid_limit, astm, pl_sample,
                   plastic_limit, sample_id, fault, n_groups, groups_done,
                   outcomes, results, pl_sample_id, warned, ll_df, pl_df,
                   atterberglimits, runs_done>>
    /\ UNCHANGED <<journal, before_call>>

\* lines 92-119: "rows", "empty" (no row for the project) or "none"
\* (execute_query caught an error and returned None)
FetchOutcomes == {"rows", "empty", "none"}

\* only the failed query makes fetch_data raise
FetchRaisesOnNoneOnly(df) == df = "none"

\* lines 102-104: if df is None or df.empty: raise ValueError
FetchRaises(df) == df \in {"none", "empty"}

\* line 603
FetchLL ==
    /\ pc = "fetch_ll"
    /\ events' = Append(events, "fetch_ll")
    /\ \E df \in FetchOutcomes :
        /\ ll_df' = df
        /\ IF ~FetchRaises(df)
           THEN pc' = "fetch_pl" /\ UNCHANGED failed_at
           ELSE pc' = "failed" /\ failed_at' = "fetch_ll"
    /\ UNCHANGED <<sample_group, estimate, liquid_limit, astm, pl_sample,
                   plastic_limit, sample_id, fault, n_groups, groups_done,
                   outcomes, results, pl_sample_id, warned, pl_df,
                   atterberglimits, runs_done>>
    /\ UNCHANGED <<journal, before_call>>

\* an empty Plastic Limit frame is let through to iterate_by_sample
FetchPLLenient ==
    /\ pc = "fetch_pl"
    /\ events' = Append(events, "fetch_pl")
    /\ \E df \in FetchOutcomes :
        /\ pl_df' = df
        /\ IF df # "none"
           THEN pc' = "iterate" /\ UNCHANGED failed_at
           ELSE pc' = "failed" /\ failed_at' = "fetch_pl"
    /\ UNCHANGED <<sample_group, estimate, liquid_limit, astm, pl_sample,
                   plastic_limit, sample_id, fault, n_groups, groups_done,
                   outcomes, results, pl_sample_id, warned, ll_df,
                   atterberglimits, runs_done>>
    /\ UNCHANGED <<journal, before_call>>

\* line 604
FetchPL ==
    /\ pc = "fetch_pl"
    /\ events' = Append(events, "fetch_pl")
    /\ \E df \in FetchOutcomes :
        /\ pl_df' = df
        /\ IF ~FetchRaises(df)
           THEN pc' = "iterate" /\ UNCHANGED failed_at
           ELSE pc' = "failed" /\ failed_at' = "fetch_pl"
    /\ UNCHANGED <<sample_group, estimate, liquid_limit, astm, pl_sample,
                   plastic_limit, sample_id, fault, n_groups, groups_done,
                   outcomes, results, pl_sample_id, warned, ll_df,
                   atterberglimits, runs_done>>
    /\ UNCHANGED <<journal, before_call>>

\* lines 606-609 and 294-308: iterate_by_sample is entered; ll_df has rows,
\* hence one group at least
IterateBySample ==
    /\ pc = "iterate"
    /\ IF ll_df = "empty" /\ pl_df = "empty"
       THEN /\ pc' = "failed"
            /\ failed_at' = "process_atterberg_limits"
            /\ UNCHANGED <<events, n_groups>>
       ELSE /\ events' = Append(events, "iterate_by_sample")
            /\ n_groups' \in 1..MaxGroups
            /\ pc' = "loop"
            /\ UNCHANGED failed_at
    /\ NoGroups
    /\ UNCHANGED <<ll_df, pl_df, atterberglimits, runs_done>>
    /\ UNCHANGED <<journal, before_call>>

RunLiquidLimit == LiquidLimitFrom(RunLLTrials)

RunPlasticLimit == PlasticLimitFrom(RunPLWaterContents)

\* lines 367-368 seen from line 610: the ValueError ends the run
IterateRaised ==
    /\ pc = "raised"
    /\ pc' = "failed"
    /\ failed_at' = "iterate_by_sample"
    /\ UNCHANGED <<sample_group, estimate, liquid_limit, astm, pl_sample,
                   plastic_limit, sample_id, fault, n_groups, groups_done,
                   outcomes, results, pl_sample_id, warned, ll_df, pl_df,
                   events, atterberglimits, runs_done>>
    /\ UNCHANGED <<journal, before_call>>

\* line 611 and 374-481: the figures are drawn and saved, or one of the
\* calls raises
PlotAtterbergLimits ==
    /\ pc = "returned"
    /\ events' = Append(events, "plot_atterberg_limits")
    /\ \E plot_ok \in BOOLEAN :
        IF plot_ok
        THEN pc' = "insert" /\ UNCHANGED failed_at
        ELSE pc' = "failed" /\ failed_at' = "plot_atterberg_limits"
    /\ UNCHANGED <<sample_group, estimate, liquid_limit, astm, pl_sample,
                   plastic_limit, sample_id, fault, n_groups, groups_done,
                   outcomes, results, pl_sample_id, warned, ll_df, pl_df,
                   atterberglimits, runs_done>>
    /\ UNCHANGED <<journal, before_call>>

\* lines 612-614 and 484-535: the transaction commits, or a statement raises
\* and the connection's context manager rolls the transaction back
InsertOrUpdate ==
    /\ pc = "insert"
    /\ events' = Append(events, "insert_or_update_atterberg_limits")
    /\ \E db_ok \in BOOLEAN :
        IF db_ok
        THEN /\ atterberglimits' =
                    insert_or_update_atterberg_limits(atterberglimits, results, runs_done)
             /\ pc' = "done"
             /\ UNCHANGED failed_at
        ELSE /\ pc' = "failed"
             /\ failed_at' = "insert_or_update_atterberg_limits"
             /\ UNCHANGED atterberglimits
    /\ UNCHANGED <<sample_group, estimate, liquid_limit, astm, pl_sample,
                   plastic_limit, sample_id, fault, n_groups, groups_done,
                   outcomes, results, pl_sample_id, warned, ll_df, pl_df,
                   runs_done>>
    /\ UNCHANGED <<journal, before_call>>

NextRun ==
    \/ StartRun
    \/ VerifyDatabaseSchema
    \/ FetchLL
    \/ FetchPL
    \/ IterateBySample
    \/ NextGroup
    \/ RunLiquidLimit
    \/ RunPlasticLimit
    \/ Emit
    \/ RaiseNoData
    \/ ReturnResults
    \/ IterateRaised
    \/ PlotAtterbergLimits
    \/ InsertOrUpdate

SpecRun == InitRun /\ [][NextRun]_vars

----------------------------------------------------------------------------
(* insert_or_update_atterberg_limits statement by statement *)

\* a record as iterate_by_sample emits it for group k: Plastic Limit 20,
\* Liquid Limit ll
RecordFor(k, ll) ==
    result_record(k, Num(k), ll, Num(20), combine(ll, Num(20)))

\* the collections written: records of different groups in the order of
\* their keys
Collections ==
    LET keys == {ks \in SeqsUpTo(1..MaxGroups, 1, MaxGroups) :
                    \A i \in 1..(Len(ks) - 1) : ks[i] < ks[i + 1]}
    IN  UNION {{[i \in 1..Len(ks) |-> RecordFor(ks[i], l[i])] :
                    l \in [1..Len(ks) -> {Num(50), NaN}]} : ks \in keys}

\* the transaction's changes stay in the table
ExceptionExitKeeps(table, jrnl) == table

\* lines 493 and 533: an exception leaves the with block through the
\* connection's __exit__, which rolls back the transaction the first UPDATE
\* or INSERT opened
ExceptionExit(table, jrnl) == IF jrnl = NoJournal THEN table ELSE jrnl

\* the table holds what an earlier call committed, or nothing
InitInsert ==
    /\ pc = "connect"
    /\ results \in Collections
    /\ \E stored \in Collections \cup {<<>>} :
        atterberglimits = insert_or_update_atterberg_limits(<<>>, stored, 1)
    /\ before_call = atterberglimits
    /\ journal = NoJournal
    /\ runs_done = 2
    /\ events = <<>>
    /\ failed_at = ""
    /\ ll_df = "rows"
    /\ pl_df = "rows"
    /\ n_groups = 0
    /\ groups_done = 0
    /\ outcomes = <<>>
    /\ sample_group = <<>>
    /\ estimate = NaN
    /\ liquid_limit = NaN
    /\ astm = AstmIdle
    /\ pl_sample = <<>>
    /\ plastic_limit = None
    /\ sample_id = None
    /\ fault = ""
    /\ pl_sample_id = None
    /\ warned = FALSE

\* lines 533-535: the exception of statement stmt is caught and ValueError
\* raised in its place
StatementFails(stmt) ==
    /\ events' = Append(events, stmt)
    /\ atterberglimits' = ExceptionExit(atterberglimits, journal)
    /\ journal' = NoJournal
    /\ failed_at' = "insert_or_update_atterberg_limits"
    /\ pc' = "raised"

InsertLocals ==
    <<sample_group, estimate, liquid_limit, astm, pl_sample, plastic_limit,
      sample_id, fault, n_groups, groups_done, outcomes, results,
      pl_sample_id, warned, ll_df, pl_df, runs_done, before_call>>

\* line 493: sqlite3.connect
Connect ==
    /\ pc = "connect"
    /\ \E db_ok \in BOOLEAN :
        IF db_ok
        THEN /\ events' = Append(events, "connect")
             /\ pc' = "update"
             /\ UNCHANGED <<atterberglimits, journal, failed_at>>
        ELSE StatementFails("connect")
    /\ UNCHANGED InsertLocals

\* lines 496-508: the UPDATE opens the transaction
MarkInactive ==
    /\ pc = "update"
    /\ \E db_ok \in BOOLEAN :
        IF db_ok
        THEN /\ events' = Append(events, "UPDATE")
             /\ journal' = atterberglimits
             /\ atterberglimits' =
                    Deactivate(atterberglimits,
                               {results[i].sample_id : i \in 1..Len(results)})
             /\ pc' = "insert_rows"
             /\ UNCHANGED failed_at
        ELSE StatementFails("UPDATE")
    /\ UNCHANGED InsertLocals

\* rows of df inserted so far
RowsInserted == Len(atterberglimits) - Len(journal)

\* lines 518-530: the INSERT of the next row of df
InsertRow ==
    /\ pc = "insert_rows"
    /\ RowsInserted < Len(results)
    /\ \E db_ok \in BOOLEAN :
        IF db_ok
        THEN /\ events' = Append(events, "INSERT")
             /\ atterberglimits' =
                    InsertRows(atterberglimits,
                               <<results[RowsInserted + 1]>>, runs_done)
             /\ UNCHANGED <<journal, failed_at, pc>>
        ELSE StatementFails("INSERT")
    /\ UNCHANGED InsertLocals

\* line 532: conn.commit()
Commit ==
    /\ pc = "insert_rows"
    /\ RowsInserted = Len(results)
    /\ \E db_ok \in BOOLEAN :
        IF db_ok
        THEN /\ events' = Append(events, "COMMIT")
             /\ journal' = NoJournal
             /\ pc' = "committed"
             /\ UNCHANGED <<atterberglimits, failed_at>>
        ELSE StatementFails("COMMIT")
    /\ UNCHANGED InsertLocals

NextInsert ==
    \/ Connect
    \/ MarkInactive
    \/ InsertRow
    \/ Commit

SpecInsert == InitInsert /\ [][NextInsert]_vars

----------------------------------------------------------------------------
(* Claims about check_astm_criteria, under SpecAstm *)

Drops(rows) == [i \in 1..Len(rows) |-> rows[i].drops]

AstmEnded == pc \in {"astm_returned", "astm_raised"}

AllBandsClaimed == astm.range_25_35 /\ astm.range_20_30 /\ astm.range_15_25

\* C1: for every trial sequence the call returns the missing-value sentinel
\* unless each of the three bands has been claimed by a trial.
C1_MissingUnlessAllBands ==
    (AstmEnded /\ ~AllBandsClaimed) => (pc = "astm_returned" /\ liquid_limit = NaN)

\* C2 as stated: drop counts 26, 29, 21 invalidate the Liquid Limit and the
\* diagnostic names the 15-to-25 band.
C2_Original ==
    (AstmEnded /\ Drops(sample_group) = <<26, 29, 21>> /\ ~isna(estimate))
        => /\ pc = "astm_returned"
           /\ liquid_limit = NaN
           /\ astm.message = "Need a trial between 15 and 25 drops"

\* C2 amended: drop counts 26, 29, 21 claim the bands 25-35, 20-30 and 15-25
\* in that order, no diagnostic is issued and the value given is returned.
C2_Amended ==
    (AstmEnded /\ Drops(sample_group) = <<26, 29, 21>>)
        => /\ pc = "astm_returned"
           /\ astm.claims = <<"25-35", "20-30", "15-25">>
           /\ astm.message = ""
           /\ liquid_limit = estimate

C2_Witness ==
    /\ pc = "astm_returned"
    /\ Drops(sample_group) = <<26, 29, 21>>
    /\ estimate = Num(40)
    /\ liquid_limit = Num(40)

\* C3: whenever all three bands are claimed the call returns exactly the
\* Liquid Limit it was given.
C3_PassesThroughUnchanged ==
    (AstmEnded /\ AllBandsClaimed) => (pc = "astm_returned" /\ liquid_limit = estimate)

----------------------------------------------------------------------------
(* Claims about calculation_plastic_limit, under SpecPL *)

SortedWc == LET s == sort_values(pl_sample) IN [i \in 1..Len(s) |-> s[i].water_content]

\* 1.4 percentage points on the 0-100 scale are 14 thousandths
PointsApart(a, b) == Abs(a - b) <= 14

\* C5: the call returns the missing-value sentinel whenever no adjacent pair
\* (ascending water_content) differs by at most 1.4 percentage points.
C5_MissingWithoutClosePair ==
    (pc = "pl_returned"
        /\ \A i \in 1..(Len(SortedWc) - 1) : ~PointsApart(SortedWc[i], SortedWc[i + 1]))
    => plastic_limit = NaN

\* C6: the call returns round(((wc_i + wc_i+1) / 2) x 100) for the first
\* adjacent pair, in ascending water_content order, that meets the tolerance.
C6_FirstClosePairWins ==
    pc = "pl_returned" =>
        \A i \in 1..(Len(SortedWc) - 1) :
            (/\ PointsApart(SortedWc[i], SortedWc[i + 1])
             /\ \A j \in 1..(i - 1) : ~PointsApart(SortedWc[j], SortedWc[j + 1]))
            => plastic_limit = Num(RoundHalfEven(SortedWc[i] + SortedWc[i + 1], 20))

----------------------------------------------------------------------------
(* Claims about iterate_by_sample, under Spec *)

InRange(row) == 15 <= row.drops /\ row.drops <= 35

\* the three bands are claimed by the trials that are within 15..35
OthersClaimAllBands ==
    check_astm_criteria(SelectSeq(sample_group, InRange), estimate).criteria_met

\* C4: a trial below 15 or above 35 drops is only logged: a group holding one
\* beside three trials that claim the three bands goes on, without a fault,
\* to a result record with the estimator's numeric Liquid Limit.
C4_OutOfRangeOnlyLogged ==
    (/\ sample_group # <<>>
     /\ \E i \in 1..Len(sample_group) : ~InRange(sample_group[i])
     /\ OthersClaimAllBands
     /\ fault # "PlotError")
    => (fault = "" /\ ~isna(liquid_limit) /\ liquid_limit = estimate)

Records == {results[i] : i \in 1..Len(results)}

\* C7: a result whose Liquid Limit and Plastic Limit are both present has
\* plasticity_index = liquid_limit - plastic_limit and soil_description "CH"
\* if liquid_limit >= 50, otherwise "CL".
C7_IndexAndClass ==
    \A r \in Records :
        (r.liquid_limit # None /\ r.plastic_limit # None)
        => /\ r.plasticity_index = Num(r.liquid_limit.v - r.plastic_limit.v)
           /\ r.soil_description = (IF r.liquid_limit.v >= 50 THEN "CH" ELSE "CL")

C7_Witness ==
    /\ pc = "returned"
    /\ \E r \in Records :
        /\ r.liquid_limit = Num(50) /\ r.plastic_limit = Num(20)
        /\ r.plasticity_index = Num(30) /\ r.soil_description = "CH"
    /\ \E r \in Records :
        /\ r.liquid_limit = Num(49) /\ r.plastic_limit = Num(21)
        /\ r.plasticity_index = Num(28) /\ r.soil_description = "CL"

\* C8: a result whose Liquid Limit or Plastic Limit is missing has
\* soil_description "NP".
C8_MissingIsNonPlastic ==
    \A r \in Records :
        (r.liquid_limit = None \/ r.plastic_limit = None) => r.soil_description = "NP"

\* C9: a result whose Liquid Limit or Plastic Limit is missing has a missing
\* plasticity_index, neither a number nor not-a-number.
C9_MissingIndex ==
    \A r \in Records :
        (r.liquid_limit = None \/ r.plastic_limit = None) => r.plasticity_index = None

\* the Liquid Limit failed the band check and the Plastic Limit is 20
C9_Witness ==
    /\ pc = "loop"
    /\ groups_done > 0
    /\ outcomes[groups_done] = "emitted"
    /\ liquid_limit = NaN
    /\ plastic_limit = Num(20)
    /\ results[Len(results)].liquid_limit = None
    /\ results[Len(results)].plastic_limit = Num(20)
    /\ results[Len(results)].plasticity_index = None

RunEnded == pc \in {"returned", "raised"}

\* C10: an exception in one group skips that group only: when the run ends
\* every group has been visited and every group that neither faulted nor
\* lacked its sample_id has its result in the output, once and in order.
C10_FaultSkipsOnlyItsGroup ==
    RunEnded =>
        /\ Len(outcomes) = n_groups
        /\ [i \in 1..Len(results) |-> results[i].sample_key]
             = SelectSeq([g \in 1..n_groups |-> g],
                         LAMBDA g : outcomes[g] \notin {"faulted", "skipped"})

\* the first group faulted and the second one is in the output
C10_Witness ==
    /\ pc = "returned"
    /\ n_groups = 2
    /\ outcomes = <<"faulted", "emitted">>
    /\ Len(results) = 1
    /\ results[1].sample_key = 2

\* C11: a run that produced no result record ends in the "no valid data"
\* error, and a run returns normally only with at least one record.
C11_NoEmptyReturn ==
    /\ pc = "returned" => results # <<>>
    /\ (RunEnded /\ results = <<>>) => pc = "raised"

\* two groups, one faulted and one without sample_id: nothing to return
C11_Witness ==
    /\ pc = "raised"
    /\ n_groups = 2
    /\ outcomes = <<"faulted", "skipped">>
    /\ results = <<>>

\* C13: a group whose Liquid Limit is invalidated by the band check, or whose
\* Plastic Limit has no qualifying pair, raises nothing and is not dropped: it
\* ends in one result record with the affected value missing.
C13_RecoverableKeepsSample ==
    /\ (sample_group # <<>> /\ ~OthersClaimAllBands) => fault = ""
    /\ (pc = "loop" /\ groups_done > 0 /\ plastic_limit = NaN)
        => /\ outcomes[groups_done] = "emitted"
           /\ results[Len(results)].sample_key = groups_done
           /\ results[Len(results)].plastic_limit = None

\* C15: a failure of create_liquid_limit_plot leaves the group's results as
\* computed: the group goes on, its Liquid Limit the validated estimate, to
\* its result record.
C15_PlotFailureHarmless ==
    (sample_group # <<>> /\ fault = "PlotError")
        => (pc = "plastic_limit" /\ liquid_limit = estimate)

\* C19: Plastic Limit rows whose sample_id differs from that of the group's
\* Liquid Limit rows draw a warning only: the group ends in a record that
\* carries the sample_id of the Liquid Limit rows and the Plastic Limit
\* computed from those Plastic Limit rows.
C19_MismatchOnlyWarns ==
    (pl_sample # <<>> /\ pl_sample_id # sample_id) =>
        /\ warned
        /\ fault = ""
        /\ plastic_limit = calculation_plastic_limit(pl_sample)
        /\ pc = "emit" \/
            (/\ pc \in {"loop", "returned"}
             /\ outcomes[groups_done] = "emitted"
             /\ results[Len(results)].sample_key = groups_done
             /\ results[Len(results)].sample_id = sample_id.v
             /\ results[Len(results)].plastic_limit = OrNone(plastic_limit))

\* the rows of sample 2 stand under the key of sample 1: Plastic Limit 20
\* stored for sample 1
C19_Witness ==
    /\ pc = "returned"
    /\ n_groups = 1
    /\ sample_id = Num(1)
    /\ pl_sample_id = Num(2)
    /\ warned
    /\ results[1].sample_id = 1
    /\ results[1].plastic_limit = Num(20)

----------------------------------------------------------------------------
(* Claims about process_atterberg_limits, under SpecRun *)

Entered(stage) == \E i \in 1..Len(events) : events[i] = stage

\* C12: when the trial source has no row for the project, the run ends in the
\* hard failure raised by the fetch: iterate_by_sample is not entered, nothing
\* is returned and the result table is not written.
C12_EmptySourceFailsRun ==
    (ll_df = "empty" \/ pl_df = "empty") =>
        /\ pc = "failed"
        /\ failed_at \in {"fetch_ll", "fetch_pl"}
        /\ results = <<>>
        /\ ~Entered("iterate_by_sample")
        /\ ~Entered("insert_or_update_atterberg_limits")

\* the second call finds no Liquid Limit row; the table holds what the first
\* call stored
C12_Witness ==
    /\ pc = "failed"
    /\ runs_done = 2
    /\ ll_df = "empty"
    /\ events = <<"verify_database_schema", "fetch_ll">>
    /\ Len(atterberglimits) > 0
    /\ \A i \in 1..Len(atterberglimits) : atterberglimits[i].date_calculated = 1

\* the values of a result record as a stored row holds them
SameValues(row, record) ==
    /\ row.sample_id = record.sample_id
    /\ row.liquid_limit = record.liquid_limit
    /\ row.plastic_limit = record.plastic_limit
    /\ row.plasticity_index = record.plasticity_index
    /\ row.soil_description = record.soil_description

\* C14: when insert_or_update_atterberg_limits commits a collection, every
\* stored row is still there, changed in is_active at most; for each
\* sample_id of the collection the rows stored before are inactive and the
\* row just inserted is the only active one.
C14_CommitSupersedes ==
    [][(pc = "insert" /\ pc' = "done") =>
        LET old == atterberglimits
            new == atterberglimits'
        IN  /\ Len(new) = Len(old) + Len(results)
            /\ \A i \in 1..Len(old) :
                    new[i] = [old[i] EXCEPT !.is_active = new[i].is_active]
            /\ \A k \in 1..Len(results) :
                    /\ \A i \in 1..Len(old) :
                            old[i].sample_id = results[k].sample_id
                                => new[i].is_active = 0
                    /\ \E i \in (Len(old) + 1)..Len(new) :
                            /\ SameValues(new[i], results[k])
                            /\ new[i].is_active = 1
                            /\ \A j \in 1..Len(new) :
                                    (new[j].sample_id = results[k].sample_id
                                        /\ new[j].is_active = 1) => j = i
    ]_vars

\* the second call has stored sample 1 again: the row of the first call is
\* inactive, the new one active
C14_Witness ==
    /\ pc = "done"
    /\ runs_done = 2
    /\ \E i, j \in 1..Len(atterberglimits) :
        /\ atterberglimits[i].sample_id = 1
        /\ atterberglimits[i].date_calculated = 1
        /\ atterberglimits[i].is_active = 0
        /\ atterberglimits[j].sample_id = 1
        /\ atterberglimits[j].date_calculated = 2
        /\ atterberglimits[j].is_active = 1

----------------------------------------------------------------------------
(* Claims about calculate_liquid_limit, under SpecFit *)

\* numerator and denominator of the water content (thousandths) at ln(25) on
\* the line through trials a and b, a of fewer drops than b
LineAt25(a, b) ==
    [num |-> a.water_content * (log(b.drops) - log(a.drops))
                + (b.water_content - a.water_content) * (log(25) - log(a.drops)),
     den |-> log(b.drops) - log(a.drops)]

\* v is round(num / den, 0), den > 0, ties to the even integer
IsRounded(v, num, den) ==
    /\ 2 * Abs(v * den - num) <= den
    /\ 2 * Abs(v * den - num) = den => v % 2 = 0

\* C17: for two trials of different drops the least-squares line is the line
\* through them, and the call returns the water content of that line at 25
\* drops, times 100 and rounded; so for trials at 22 and 28 drops.
C17_TwoTrialFit ==
    (pc = "fit_returned" /\ Len(sample_group) = 2
        /\ sample_group[1].drops # sample_group[2].drops)
    => LET lo == IF sample_group[1].drops < sample_group[2].drops
                 THEN sample_group[1] ELSE sample_group[2]
           hi == IF sample_group[1].drops < sample_group[2].drops
                 THEN sample_group[2] ELSE sample_group[1]
           at25 == LineAt25(lo, hi)
       IN  /\ ~isna(estimate)
           /\ IsRounded(estimate.v, at25.num, 10 * at25.den)

\* water contents 0.520 at 22 drops and 0.496 at 28: 0.507 at 25, hence 51
C17_Witness ==
    /\ pc = "fit_returned"
    /\ Drops(sample_group) = <<22, 28>>
    /\ sample_group[1].water_content = 520
    /\ sample_group[2].water_content = 496
    /\ estimate = Num(51)

\* C18: with one trial only, or with every drops the same, the call returns
\* the missing-value sentinel.
C18_DegenerateFitIsMissing ==
    (pc = "fit_returned"
        /\ \A i \in 1..Len(sample_group) : sample_group[i].drops = sample_group[1].drops)
    => estimate = NaN

\* the stages of a run in the order of lines 597-612
Stages ==
    <<"verify_database_schema", "fetch_ll", "fetch_pl", "iterate_by_sample",
      "plot_atterberg_limits", "insert_or_update_atterberg_limits">>

IsPrefix(a, b) == Len(a) <= Len(b) /\ \A i \in 1..Len(a) : a[i] = b[i]

\* C20: the schema check is a gate.  Once it has failed the run has entered no
\* other stage: no frame fetched, no group visited, no record, the table as it
\* was; and in every run the stages are entered in the order schema check,
\* fetch, iterate_by_sample, plots, insert, the table changing only in the last.
C20_SchemaCheckGates ==
    [][/\ IsPrefix(events', Stages)
       /\ failed_at' = "verify_database_schema" =>
            /\ events' = <<"verify_database_schema">>
            /\ ll_df' = "unfetched" /\ pl_df' = "unfetched"
            /\ n_groups' = 0 /\ groups_done' = 0 /\ results' = <<>>
            /\ pc' = "failed"
            /\ atterberglimits' = atterberglimits
       /\ pc' \in {"loop", "liquid_limit", "plastic_limit", "emit"} =>
            events' = SubSeq(Stages, 1, 4)
       /\ atterberglimits' # atterberglimits => events' = Stages
    ]_vars

\* the second call stops at the schema check; the rows of the first call are
\* as it left them
C20_Witness ==
    /\ pc = "failed"
    /\ failed_at = "verify_database_schema"
    /\ events = <<"verify_database_schema">>
    /\ runs_done = 2
    /\ Len(atterberglimits) = 2
    /\ \A i \in 1..2 : /\ atterberglimits[i].is_active = 1
                        /\ atterberglimits[i].date_calculated = 1

----------------------------------------------------------------------------
(* Further claims about check_astm_criteria, under SpecAstm *)

\* the bands in the order they are tested
Bands ==
    <<[name |-> "25-35", lo |-> 25, hi |-> 35],
      [name |-> "20-30", lo |-> 20, hi |-> 30],
      [name |-> "15-25", lo |-> 15, hi |-> 25]>>

InBand(d, k) == Bands[k].lo <= d /\ d <= Bands[k].hi

\* the reference greedy procedure: trial i of d claims the first band, in the
\* order of Bands, that holds its drops and is not in taken; "none" if there
\* is no such band
RECURSIVE GreedyClaims(_, _, _)
GreedyClaims(d, i, taken) ==
    IF i > Len(d) THEN <<>>
    ELSE LET free == {k \in 1..Len(Bands) : k \notin taken /\ InBand(d[i], k)}
         IN  IF free = {}
             THEN <<"none">> \o GreedyClaims(d, i + 1, taken)
             ELSE LET k == CHOOSE k \in free : \A j \in free : k <= j
                  IN  <<Bands[k].name>> \o GreedyClaims(d, i + 1, taken \cup {k})

\* C21: the call visits every trial in input order and its band assignment
\* is that of the reference greedy procedure.
C21_GreedyAssignment ==
    AstmEnded =>
        /\ pc = "astm_returned"
        /\ astm.claims = GreedyClaims(Drops(sample_group), 1, {})

\* three different trials of d, one in each band
HasMatching(d) ==
    \E i, j, k \in 1..Len(d) :
        /\ i # j /\ i # k /\ j # k
        /\ InBand(d[i], 1) /\ InBand(d[j], 2) /\ InBand(d[k], 3)

\* C22: the verdict depends on the order of the trials: drops 25, 30, 22 in
\* that order pass, the same trials as 22, 25, 30 are rejected (no trial left
\* for the band 15-25) although each band could be given a trial of its own.
C22_OrderMatters ==
    /\ (AstmEnded /\ Drops(sample_group) = <<25, 30, 22>>)
        => /\ pc = "astm_returned"
           /\ astm.criteria_met
           /\ liquid_limit = estimate
    /\ (AstmEnded /\ Drops(sample_group) = <<22, 25, 30>>)
        => /\ pc = "astm_returned"
           /\ ~astm.criteria_met
           /\ astm.claims = <<"20-30", "25-35", "none">>
           /\ liquid_limit = NaN
           /\ HasMatching(Drops(sample_group))

C22_Witness ==
    /\ pc = "astm_returned"
    /\ Drops(sample_group) = <<22, 25, 30>>
    /\ estimate = Num(40)
    /\ liquid_limit = NaN
    /\ astm.message = "Need a trial between 15 and 25 drops"

\* the bands no trial of d claims under the reference procedure
Unclaimed(d) ==
    LET g == GreedyClaims(d, 1, {})
    IN  {k \in 1..Len(Bands) : \A i \in 1..Len(g) : g[i] # Bands[k].name}

\* the diagnostic that names band k
Diagnostic ==
    <<"Need a trial between 25 and 35 drops",
      "Need a trial between 20 and 30 drops",
      "Need a trial between 15 and 25 drops">>

\* C23: when the band check fails the call reports one diagnostic, that of
\* the first band, in the order 25-35, 20-30, 15-25, that is left unclaimed.
C23_FirstMissingBandReported ==
    (AstmEnded /\ Unclaimed(Drops(sample_group)) # {})
    => /\ pc = "astm_returned"
       /\ \E k \in Unclaimed(Drops(sample_group)) :
            /\ \A j \in Unclaimed(Drops(sample_group)) : k <= j
            /\ astm.message = Diagnostic[k]

\* C26: a Liquid Limit that comes back non-missing has three different
\* trials behind it, one of 25 to 35 drops, one of 20 to 30 and one of 15 to
\* 25; so a frame of fewer than three trials gets the missing-value sentinel.
C26_BandCheckSound ==
    (pc = "astm_returned" /\ ~isna(liquid_limit))
    => /\ HasMatching(Drops(sample_group))
       /\ Len(sample_group) >= 3

\* drops 25, 25, 25: the three bands are claimed by three trials
C26_Witness ==
    /\ pc = "astm_returned"
    /\ Drops(sample_group) = <<25, 25, 25>>
    /\ liquid_limit = Num(55)

----------------------------------------------------------------------------
(* Further claims about calculation_plastic_limit, under SpecPL *)

\* C24: a frame with exactly one Plastic Limit trial has no adjacent pair:
\* the call returns the missing-value sentinel, as it does when no pair
\* qualifies.
C24_LoneTrialIsMissing ==
    (pc = "pl_returned" /\ Len(pl_sample) = 1) => plastic_limit = NaN

C24_Witness ==
    /\ pc = "pl_returned"
    /\ Len(pl_sample) = 1
    /\ pl_sample[1].water_content = 192
    /\ plastic_limit = NaN

----------------------------------------------------------------------------
(* Further claims about iterate_by_sample, under Spec *)

\* number of result records under the key of group g
RecordsOf(g) == Cardinality({i \in 1..Len(results) : results[i].sample_key = g})

ResultKeysAreGroups == \A i \in 1..Len(results) : results[i].sample_key \in 1..n_groups

----------------------------------------------------------------------------
(* Further claims about process_atterberg_limits, under SpecRun *)

ActiveRows(table, sid) ==
    {i \in 1..Len(table) : table[i].sample_id = sid /\ table[i].is_active = 1}

\* C27: from the empty table on, whatever the calls and however they end, no
\* sample_id has two active rows, and every row once stored stays stored,
\* changed in is_active at most.
C27_OneActiveRowNoDelete ==
    [][/\ \A i \in 1..Len(atterberglimits') :
            Cardinality(ActiveRows(atterberglimits',
                                   atterberglimits'[i].sample_id)) <= 1
       /\ Len(atterberglimits') >= Len(atterberglimits)
       /\ \A i \in 1..Len(atterberglimits) :
            atterberglimits'[i] =
                [atterberglimits[i] EXCEPT !.is_active = atterberglimits'[i].is_active]
    ]_vars

\* the first call stored sample 1, the second samples 1 and 2
C27_Witness ==
    /\ pc = "done"
    /\ runs_done = 2
    /\ Len(atterberglimits) = 3
    /\ [i \in 1..3 |-> atterberglimits[i].sample_id] = <<1, 1, 2>>
    /\ [i \in 1..3 |-> atterberglimits[i].is_active] = <<0, 1, 1>>

\* C28: a commit leaves every stored row whose sample_id is not in the
\* collection as it was; so the rows of a sample whose group faulted in this
\* call, an active one included, are what they were.
C28_OtherRowsUntouched ==
    [][(pc = "insert" /\ pc' = "done") =>
        LET old == atterberglimits
            new == atterberglimits'
            written == {results[k].sample_id : k \in 1..Len(results)}
        IN  /\ \A i \in 1..Len(old) :
                    old[i].sample_id \notin written => new[i] = old[i]
            /\ \A g \in 1..n_groups :
                    outcomes[g] # "emitted" =>
                        /\ g \notin written
                        /\ ActiveRows(new, g) = ActiveRows(old, g)
    ]_vars

\* sample 1 was stored by the first call and faulted in the second, which
\* stored sample 2: the row of sample 1 is still the active one
C28_Witness ==
    /\ pc = "done"
    /\ runs_done = 2
    /\ outcomes = <<"faulted", "emitted">>
    /\ Len(atterberglimits) = 2
    /\ atterberglimits[1].sample_id = 1
    /\ atterberglimits[1].date_calculated = 1
    /\ atterberglimits[1].is_active = 1
    /\ atterberglimits[2].sample_id = 2
    /\ atterberglimits[2].date_calculated = 2

\* C30: the run fails as soon as one of the two frames is empty: with Liquid
\* Limit rows and no Plastic Limit row the second fetch raises, with no
\* Liquid Limit row the first one does before the second is made; no group
\* is processed and nothing stored.  The check "both frames empty" is reached
\* only with rows in both and is never what fails the run.
C30_EitherEmptyFailsRun ==
    /\ (ll_df = "rows" /\ pl_df = "empty") =>
        /\ pc = "failed"
        /\ failed_at = "fetch_pl"
        /\ n_groups = 0 /\ results = <<>>
        /\ ~Entered("insert_or_update_atterberg_limits")
    /\ ll_df = "empty" =>
        /\ pc = "failed"
        /\ failed_at = "fetch_ll"
        /\ pl_df = "unfetched"
    /\ pc = "iterate" => (ll_df = "rows" /\ pl_df = "rows")
    /\ failed_at # "process_atterberg_limits"

\* Liquid Limit rows, no Plastic Limit row
C30_Witness ==
    /\ pc = "failed"
    /\ ll_df = "rows"
    /\ pl_df = "empty"
    /\ events = <<"verify_database_schema", "fetch_ll", "fetch_pl">>
    /\ failed_at = "fetch_pl"

----------------------------------------------------------------------------
(* Claims about insert_or_update_atterberg_limits, under SpecInsert *)

\* C29: the call is all or nothing.  If a statement fails, also after rows
\* were marked inactive or inserted, ValueError is raised and the table is
\* exactly what it was before the call; if the call commits, the table holds
\* the whole write.
C29_AllOrNothing ==
    /\ pc = "raised" =>
        /\ atterberglimits = before_call
        /\ failed_at = "insert_or_update_atterberg_limits"
        /\ journal = NoJournal
    /\ pc = "committed" =>
        atterberglimits =
            insert_or_update_atterberg_limits(before_call, results, runs_done)

\* the second INSERT of two failed after the stored row of sample 1 was
\* marked inactive and a new one inserted: the stored row is active again and
\* alone
C29_Witness ==
    /\ pc = "raised"
    /\ events = <<"connect", "UPDATE", "INSERT", "INSERT">>
    /\ Len(results) = 2
    /\ results[1].sample_id = 1
    /\ Len(atterberglimits) = 1
    /\ atterberglimits[1].sample_id = 1
    /\ atterberglimits[1].date_calculated = 1
    /\ atterberglimits[1].is_active = 1

====
